---- MODULE Spec2Model ----
(***************************************************************************)
(* Substance document core: the transactional mutation layer of Document   *)
(* (src/document/document.js): the live store, the transaction stage, the  *)
(* done/undone history and change notification.                            *)
(***************************************************************************)
EXTENDS Integers, Sequences, FiniteSets, TLC

\* ------------------------------------------------------------------ bounds
\* longest text content the enumerated splices produce
MaxTextLen == 1
\* most operations buffered by one transaction
MaxOps == 2
\* most committed changes kept in history (done and undone together)
MaxChanges == 2
\* most calls made against the transaction discipline: mutations of the
\* document outside a transaction, undo or redo inside one
MaxDirect == 1
\* longest done stack at which the less common calls are still enumerated:
\* transaction() with a beforeState, with eventData or without a
\* transformation function, startTransaction(), a start
\* while a transaction is active, transactions while they are forced or after
\* a call against the transaction discipline, while the proxy or a listener
\* of transaction:started throws, or after a seed was loaded;
\* startTransaction() and starts
\* inside a transaction are enumerated before any such call only, and
\* transaction() in another form than transaction(transformation) while
\* the undone stack is shorter than this as well
MaxVariant == 1

\* how many transformations may wait inside a transaction() call of their own
MaxNesting == 1

\* ------------------------------------------------------------- data store
Chars == {"a", "b"}

NodeIds == {"p1", "s1"}

\* a text node, an annotation anchored to [p1, content], and the empty slot
Para(c) == [type |-> "paragraph", content |-> c, startOffset |-> 0, endOffset |-> 0]

Anno(s, e) == [type |-> "strong", content |-> <<>>, startOffset |-> s, endOffset |-> e]

NoNode == [type |-> "none", content |-> <<>>, startOffset |-> 0, endOffset |-> 0]

EmptyStore == [id \in NodeIds |-> NoNode]

NoDiff == [kind |-> "none", pos |-> 0, str |-> <<>>]

\* the four operation primitives, each carrying what its inverse needs
OpCreate(id, node) ==
  [type |-> "create", id |-> id, node |-> node, value |-> <<>>, original |-> <<>>, diff |-> NoDiff]

OpDelete(id, node) ==
  [type |-> "delete", id |-> id, node |-> node, value |-> <<>>, original |-> <<>>, diff |-> NoDiff]

OpSet(id, value, original) ==
  [type |-> "set", id |-> id, node |-> NoNode, value |-> value, original |-> original, diff |-> NoDiff]

OpUpdate(id, diff) ==
  [type |-> "update", id |-> id, node |-> NoNode, value |-> <<>>, original |-> <<>>, diff |-> diff]

\* string splice
Splice(text, diff) ==
  IF diff.kind = "insert"
  THEN SubSeq(text, 1, diff.pos) \o diff.str \o SubSeq(text, diff.pos + 1, Len(text))
  ELSE SubSeq(text, 1, diff.pos) \o SubSeq(text, diff.pos + Len(diff.str) + 1, Len(text))

InvertDiff(diff) ==
  [diff EXCEPT !.kind = IF diff.kind = "insert" THEN "delete" ELSE "insert"]

\* invalid input (existing id on create, unknown id, out-of-range splice)
\* fails with InvalidOperation
CanApply(store, op) ==
  CASE op.type = "create" -> store[op.id] = NoNode
    [] op.type = "delete" -> store[op.id] # NoNode
    [] op.type = "set" -> store[op.id].type = "paragraph"
    [] op.type = "update" ->
         /\ store[op.id].type = "paragraph"
         /\ IF op.diff.kind = "insert"
            THEN op.diff.pos <= Len(store[op.id].content)
            ELSE op.diff.pos + Len(op.diff.str) <= Len(store[op.id].content)

ApplyOp(store, op) ==
  CASE op.type = "create" -> [store EXCEPT ![op.id] = op.node]
    [] op.type = "delete" -> [store EXCEPT ![op.id] = NoNode]
    [] op.type = "set" -> [store EXCEPT ![op.id].content = op.value]
    [] op.type = "update" ->
         [store EXCEPT ![op.id].content = Splice(store[op.id].content, op.diff)]

InvertOp(op) ==
  CASE op.type = "create" -> OpDelete(op.id, op.node)
    [] op.type = "delete" -> OpCreate(op.id, op.node)
    [] op.type = "set" -> OpSet(op.id, op.original, op.value)
    [] op.type = "update" -> OpUpdate(op.id, InvertDiff(op.diff))

\* _.each(ops, apply): ops are applied one by one; the first invalid one throws
\* and leaves the store with the ops before it applied
RECURSIVE ApplyAll(_, _)
ApplyAll(store, ops) ==
  IF ops = <<>> THEN [ok |-> TRUE, store |-> store]
  ELSE IF ~CanApply(store, Head(ops)) THEN [ok |-> FALSE, store |-> store]
  ELSE ApplyAll(ApplyOp(store, Head(ops)), Tail(ops))

\* the text paths annotations are looked up by, and the path an annotation of
\* the model is attached to
Paths == {<<"p1", "content">>, <<"s1", "content">>}

AnnoPath(node) == <<"p1", "content">>

IsAnnotation(node) == node.type = "strong"

\* the annotation index of a store without nodes
EmptyIndex == [p \in Paths |-> {}]

\* AnnotationIndex.create / delete, called by the store for the op it applied
IndexOp(index, op) ==
  IF ~IsAnnotation(op.node) THEN index
  ELSE IF op.type = "create"
       THEN [index EXCEPT ![AnnoPath(op.node)] = @ \cup {op.id}]
       ELSE IF op.type = "delete"
            THEN [index EXCEPT ![AnnoPath(op.node)] = @ \ {op.id}]
            ELSE index

RECURSIVE IndexAll(_, _, _)
\* the index after the ops that ApplyAll applies to the store
IndexAll(index, store, ops) ==
  IF ops = <<>> \/ ~CanApply(store, Head(ops)) THEN index
  ELSE IndexAll(IndexOp(index, Head(ops)), ApplyOp(store, Head(ops)), Tail(ops))

\* AnnotationIndex.get(path, start, end): the annotations indexed under the
\* path whose range meets [start, end]
IndexGet(index, store, path, start, end) ==
  {id \in index[path] : store[id].endOffset >= start /\ store[id].startOffset <= end}

Reverse(s) == [i \in 1..Len(s) |-> s[Len(s) + 1 - i]]

InvertOps(ops) == [i \in 1..Len(ops) |-> InvertOp(ops[Len(ops) + 1 - i])]

\* ------------------------------------------------ change and app state
\* application state snapshots (beforeState / afterState): one key, selection;
\* "absent" is a missing key, "null" a present but falsy value
SelVals == {"absent", "null", "A", "B"}

NoState == [selection |-> "absent"]

SelState(v) == [selection |-> v]

Truthy(v) == v \notin {"absent", "null"}

\* new DocumentChange(ops, before, after)
DocumentChange(ops, before, after) == [ops |-> ops, before |-> before, after |-> after]

\* DocumentChange.invert: every op inverted, in reverse order; before and after swapped
Invert(change) ==
  [ops |-> InvertOps(change.ops), before |-> change.after, after |-> change.before]

\* ------------------------------------------------------- document state
\* The handlers below are written as functions from the document's fields to
\* the fields after the call: a record
\*   [data, stageData, stageOps, stageBefore, isTransacting, done, undone,
\*    annotationIndex, proxyThrows, listenerThrows, events, err]
\* where events are the signals emitted so far by the running call and err is
\* the error it threw ("none" when it returned).

\* one emitted signal, with what a listener can observe at that moment
Event(name, change, info, s) ==
  [name |-> name, change |-> change, info |-> info,
   data |-> s.data, done |-> s.done, undone |-> s.undone]

NoChange == DocumentChange(<<>>, NoState, NoState)

Throw(s, e) == [s EXCEPT !.err = e]

\* info = info || {}
InfoOrEmpty(info) == IF info = "undefined" THEN "{}" ELSE info

\* a mutation request as the caller states it, and the op the store records for it
Req(kind, id, node, value, diff) ==
  [kind |-> kind, id |-> id, node |-> node, value |-> value, diff |-> diff]

MakeOp(store, req) ==
  CASE req.kind = "create" -> OpCreate(req.id, req.node)
    [] req.kind = "delete" -> OpDelete(req.id, store[req.id])
    [] req.kind = "set" -> OpSet(req.id, req.value, store[req.id].content)
    [] req.kind = "update" -> OpUpdate(req.id, req.diff)

\* TransactionDocument.create/delete/set/update: applied to the shadow store and,
\* while a transaction is active, buffered
StageMutate(s, req) ==
  LET op == MakeOp(s.stageData, req) IN
  IF ~CanApply(s.stageData, op) THEN Throw(s, "InvalidOperation")
  ELSE [s EXCEPT !.stageData = ApplyOp(s.stageData, op),
                 !.stageOps = IF s.isTransacting THEN Append(@, op) ELSE @]

\* AbstractDocument._create/_delete/_set/_update: applied to the live store
LiveMutate(s, req) ==
  LET op == MakeOp(s.data, req) IN
  IF ~CanApply(s.data, op) THEN Throw(s, "InvalidOperation")
  ELSE [s EXCEPT !.data = ApplyOp(s.data, op),
                 !.annotationIndex = IndexOp(@, op)]

\* TransactionDocument.reset
StageReset(s) == [s EXCEPT !.stageOps = <<>>, !.stageBefore = NoState]

\* TransactionDocument.apply(documentChange)
StageApply(s, change) ==
  LET r == ApplyAll(s.stageData, change.ops) IN
  [s EXCEPT !.stageData = r.store, !.err = IF r.ok THEN "none" ELSE "InvalidOperation"]

\* _notifyChangeListeners that emits document:changed before calling the proxies
NotifyEmitsFirst(s, change, info) ==
  LET i == InfoOrEmpty(info)
      s1 == [s EXCEPT !.events = Append(@, Event("document:changed", change, i, s))]
  IN [s1 EXCEPT !.events = Append(@, Event("proxy:path", change, i, s1))]

\* _.each(this.eventProxies, ...): proxy.onDocumentChanged(change, info) is
\* called on the registered proxy; what the call throws is not caught
ProxyOnDocumentChanged(s, change, info) ==
  LET s1 == [s EXCEPT !.events = Append(@, Event("proxy:path", change, info, s))]
  IN IF s.proxyThrows THEN Throw(s1, "ProxyError") ELSE s1

\* Document._notifyChangeListeners
NotifyChangeListeners(s, change, info) ==
  LET i == InfoOrEmpty(info)
      s1 == ProxyOnDocumentChanged(s, change, i)
  IN IF s1.err # "none" THEN s1
     ELSE [s1 EXCEPT !.events = Append(@, Event("document:changed", change, i, s1))]

\* Document._apply
Apply(s, change, mode) ==
  IF s.isTransacting THEN Throw(s, "ReplayDuringTransaction")
  ELSE LET s1 == IF mode # "skipStage" THEN StageApply(s, change) ELSE s IN
       IF s1.err # "none" THEN s1
       ELSE LET r == ApplyAll(s1.data, change.ops) IN
            [s1 EXCEPT !.data = r.store,
                       !.annotationIndex = IndexAll(@, s1.data, change.ops),
                       !.err = IF r.ok THEN "none" ELSE "InvalidOperation"]

\* _saveTransaction that leaves the undone stack as it is
SaveTransactionKeepsUndone(s, beforeState, afterState, info) ==
  IF ~s.isTransacting THEN Throw(s, "NotInTransaction")
  ELSE LET s1 == [s EXCEPT !.isTransacting = FALSE]
           documentChange == DocumentChange(s1.stageOps, beforeState, afterState)
           s2 == Apply(s1, documentChange, "skipStage")
       IN IF s2.err # "none" THEN s2
          ELSE NotifyChangeListeners(
                 [s2 EXCEPT !.done = Append(@, documentChange)],
                 documentChange, info)

\* Document._saveTransaction
SaveTransaction(s, beforeState, afterState, info) ==
  IF ~s.isTransacting THEN Throw(s, "NotInTransaction")
  ELSE LET s1 == [s EXCEPT !.isTransacting = FALSE]
           documentChange == DocumentChange(s1.stageOps, beforeState, afterState)
           s2 == Apply(s1, documentChange, "skipStage")
       IN IF s2.err # "none" THEN s2
          ELSE NotifyChangeListeners(
                 [s2 EXCEPT !.done = Append(@, documentChange), !.undone = <<>>],
                 documentChange, info)

\* Document._cancelTransaction
CancelTransaction(s) ==
  IF ~s.isTransacting THEN Throw(s, "NotInTransaction")
  ELSE [s EXCEPT !.isTransacting = FALSE]

\* _.extend({}, before, afterState)
Extend(before, afterState) ==
  [selection |-> IF afterState.selection # "absent" THEN afterState.selection
                 ELSE before.selection]

\* TransactionDocument.save(afterState, info)
TxSave(s, afterState, info) ==
  LET before == s.stageBefore
      s1 == SaveTransaction(s, before, Extend(before, afterState), info)
  IN IF s1.err # "none" THEN s1 ELSE StageReset(s1)

\* TransactionDocument.cancel: the buffered ops are reverted on the shadow
\* store, last first
TxCancel(s) ==
  LET r == ApplyAll(s.stageData, InvertOps(s.stageOps))
      s1 == CancelTransaction([s EXCEPT !.stageData = r.store])
  IN IF s1.err # "none" THEN s1 ELSE StageReset(s1)

\* TransactionDocument.finish
TxFinish(s) == IF s.isTransacting THEN TxCancel(s) ELSE s

\* ------------------------------------------------- container annotations
\* most container annotations a queried document holds
MaxCa == 2
\* last position of the container order that selections range over
MaxPos == 2

CaIds == {"ca" \o ToString(i) : i \in 1..MaxCa}

\* a container annotation: its type, the container it belongs to and the
\* positions its selection spans in container order; NoCaNode for an unused id
CaNode(type, container, startPos, endPos) ==
  [type |-> type, container |-> container, startPos |-> startPos, endPos |-> endPos]

NoCaNode == CaNode("none", "none", 0, 0)

CaNodeVals ==
  {CaNode(t, c, r[1], r[2]) :
     t \in {"comment", "highlight"}, c \in {"main", "sidebar"},
     r \in {<<0, 1>>, <<MaxPos, MaxPos>>}} \cup {NoCaNode}

\* the index 'type': ids of the nodes of a type
TypeIndexGet(nodes, type) == {id \in DOMAIN nodes : nodes[id].type = type}

\* the index 'container-annotations', byId: all container annotations
ContainerAnnotationsById(nodes) == {id \in DOMAIN nodes : nodes[id] # NoCaNode}

\* anno.getSelection(): the span of the annotation
GetSelection(node) == [startPos |-> node.startPos, endPos |-> node.endPos]

\* sel.overlaps(other)
Overlaps(sel, other) == sel.startPos <= other.endPos /\ other.startPos <= sel.endPos

NoQuery == [sel |-> [startPos |-> 0, endPos |-> 0], container |-> "undefined",
            options |-> [defined |-> FALSE, type |-> "undefined"], asked |-> FALSE]

NoResult == [err |-> "none", annotations |-> {}]

\* --------------------------------------------------- surface coordinates
\* the largest DOM offset a point is given with
MaxOffset == 6

\* A surface is its DOM nodes in document order; parent 0 is the surface
\* element. A text node carries the length of its text, an element its
\* data-path attribute (as the tokens around the dot) and data-external.
NoPath == <<>>

El(parent) ==
  [kind |-> "element", parent |-> parent, path |-> NoPath, external |-> FALSE, length |-> 0]

PropertyEl(parent, id) ==
  [kind |-> "element", parent |-> parent, path |-> <<id, ".", "content">>,
   external |-> FALSE, length |-> 0]

ExternalEl(parent) ==
  [kind |-> "element", parent |-> parent, path |-> NoPath, external |-> TRUE, length |-> 0]

TextNode(parent, length) ==
  [kind |-> "text", parent |-> parent, path |-> NoPath, external |-> FALSE, length |-> length]

\* <span data-path="test1.content">Hello World!</span>
singlePropertyFixture == <<El(0), PropertyEl(1, "test1"), TextNode(2, 12)>>

\* <span data-path="test1.content"></span>
emptyParagraphFixture == <<El(0), PropertyEl(1, "test1")>>

\* three properties in a row, nothing between them
multiplePropertiesFixture ==
  <<El(0), PropertyEl(1, "test1"), TextNode(2, 19),
    El(0), PropertyEl(4, "test2"), TextNode(5, 20),
    El(0), PropertyEl(7, "test3"), TextNode(8, 19)>>

\* Before | test1 | test2 | Between | test3 | test4 | After
mixedFixture ==
  <<El(0), TextNode(1, 6),
    El(0), PropertyEl(3, "test1"), TextNode(4, 19),
    El(0), PropertyEl(6, "test2"), TextNode(7, 20),
    El(0), TextNode(9, 7),
    El(0), PropertyEl(11, "test3"), TextNode(12, 19),
    El(0), PropertyEl(14, "test4"), TextNode(15, 19),
    El(0), TextNode(17, 5)>>

\* four spans of two characters inside the property element
wrappedTextNodes ==
  <<El(0), PropertyEl(1, "test1"),
    El(2), TextNode(3, 2), El(2), TextNode(5, 2),
    El(2), TextNode(7, 2), El(2), TextNode(9, 2)>>

\* three spans of two characters, each followed by an external span
wrappedTextNodesWithExternals ==
  <<El(0), PropertyEl(1, "test1"),
    El(2), TextNode(3, 2), ExternalEl(2), TextNode(5, 1),
    El(2), TextNode(7, 2), ExternalEl(2), TextNode(9, 1),
    El(2), TextNode(11, 2), ExternalEl(2), TextNode(13, 1)>>

Fixtures ==
  {singlePropertyFixture, emptyParagraphFixture, multiplePropertiesFixture,
   mixedFixture, wrappedTextNodes, wrappedTextNodesWithExternals}

\* node.childNodes, in order
ChildNodes(dom, node) ==
  SelectSeq([i \in 1..Len(dom) |-> i], LAMBDA i : dom[i].parent = node)

\* coor.getPath(): dataset.path.split('.')
SplitPath(path) == SelectSeq(path, LAMBDA token : token # ".")

Coordinate(path, offset) == [path |-> path, offset |-> offset]

NoCoordinate == Coordinate(NoPath, 0)

NoCall == [fn |-> "none", node |-> 0, offset |-> 0, direction |-> "undefined"]

RECURSIVE PropertyElOf(_, _)
\* walk up from the node to the nearest element with data-path; 0 if none
PropertyElOf(dom, node) ==
  IF node = 0 THEN 0
  ELSE IF dom[node].path # NoPath THEN node
       ELSE PropertyElOf(dom, dom[node].parent)

RECURSIVE CountCharactersWithExternals(_, _)
\* the length of textContent, external spans included
CountCharactersWithExternals(dom, node) ==
  IF dom[node].kind = "text" THEN dom[node].length
  ELSE LET children == ChildNodes(dom, node)
           RECURSIVE Sum(_)
           Sum(i) == IF i > Len(children) THEN 0
                     ELSE CountCharactersWithExternals(dom, children[i]) + Sum(i + 1)
       IN Sum(1)

RECURSIVE CountCharacters(_, _)
\* the text length of a subtree: the lengths of its text nodes, in depth-first
\* order, external spans contributing nothing
CountCharacters(dom, node) ==
  IF dom[node].kind = "text" THEN dom[node].length
  ELSE IF dom[node].external THEN 0
       ELSE LET children == ChildNodes(dom, node)
                RECURSIVE Sum(_)
                Sum(i) == IF i > Len(children) THEN 0
                          ELSE CountCharacters(dom, children[i]) + Sum(i + 1)
            IN Sum(1)

Min(a, b) == IF a < b THEN a ELSE b

RECURSIVE GetPosition(_, _, _, _, _)
\* the depth-first walk from a node towards the point (endNode, offset):
\* whether the point was met, and the characters counted up to it or, if it
\* was not met, in the whole subtree; inside an external span nothing counts
GetPosition(dom, node, endNode, offset, external) ==
  LET ext == external \/ dom[node].external
      children == ChildNodes(dom, node)
      RECURSIVE Walk(_)
      Walk(i) ==
        IF i > Len(children) THEN [found |-> FALSE, charPos |-> 0]
        ELSE LET r == GetPosition(dom, children[i], endNode, offset, ext) IN
             IF r.found THEN r
             ELSE LET rest == Walk(i + 1) IN
                  [found |-> rest.found, charPos |-> r.charPos + rest.charPos]
      RECURSIVE Leading(_)
      Leading(i) == IF i > Min(offset, Len(children)) THEN 0
                  ELSE CountCharacters(dom, children[i]) + Leading(i + 1)
  IN IF node = endNode
     THEN [found |-> TRUE,
           charPos |-> IF ext THEN 0
                       ELSE IF dom[node].kind = "text" THEN offset ELSE Leading(1)]
     ELSE IF dom[node].kind = "text"
          THEN [found |-> FALSE, charPos |-> IF ext THEN 0 ELSE dom[node].length]
          ELSE Walk(1)

\* the model offset of the point within the property element
ComputeCharPosition(dom, propertyEl, endNode, offset) ==
  LET r == GetPosition(dom, propertyEl, endNode, offset, FALSE) IN
  IF r.found THEN r.charPos ELSE 0

\* querySelectorAll('*[data-path]'): the property elements in document order
PropertyElements(dom) ==
  SelectSeq([i \in 1..Len(dom) |-> i], LAMBDA i : dom[i].path # NoPath)

RECURSIVE LastInSubtree(_, _)
LastInSubtree(dom, node) ==
  LET children == ChildNodes(dom, node) IN
  IF children = <<>> THEN node ELSE LastInSubtree(dom, children[Len(children)])

\* the first node in document order that lies behind the point
Boundary(dom, node, offset) ==
  LET children == ChildNodes(dom, node) IN
  IF dom[node].kind = "element" /\ offset < Len(children) THEN children[offset + 1]
  ELSE LastInSubtree(dom, node) + 1

RECURSIVE FirstFollowing(_, _)
\* walking forward: the first property element behind the point, 0 if none
FirstFollowing(elements, boundary) ==
  IF elements = <<>> THEN 0
  ELSE IF Head(elements) >= boundary THEN Head(elements)
       ELSE FirstFollowing(Tail(elements), boundary)

RECURSIVE LastPreceding(_, _)
\* walking backward: the last property element before the point, 0 if none
LastPreceding(elements, boundary) ==
  IF elements = <<>> \/ Head(elements) >= boundary THEN 0
  ELSE LET later == LastPreceding(Tail(elements), boundary) IN
       IF later = 0 THEN Head(elements) ELSE later

\* a search that always walks forward
SearchForward(dom, node, offset, direction) ==
  LET elements == PropertyElements(dom)
      next == FirstFollowing(elements, Boundary(dom, node, offset))
      last == elements[Len(elements)]
  IN IF next # 0 THEN Coordinate(SplitPath(dom[next].path), 0)
     ELSE Coordinate(SplitPath(dom[last].path), CountCharacters(dom, last))

\* a search that gives up when no property lies in its direction
SearchWithoutFallback(dom, node, offset, direction) ==
  LET elements == PropertyElements(dom)
      boundary == Boundary(dom, node, offset)
      next == FirstFollowing(elements, boundary)
      prev == LastPreceding(elements, boundary)
  IN IF direction = "left"
     THEN Coordinate(SplitPath(dom[prev].path), CountCharacters(dom, prev))
     ELSE IF next # 0 THEN Coordinate(SplitPath(dom[next].path), 0)
          ELSE NoCoordinate

\* surfaceSelection.searchForCoordinate(node, offset, options): the boundary of
\* the nearest property in the direction of options.direction; a forward
\* search behind the last property ends at the end of that property
SearchForCoordinate(dom, node, offset, direction) ==
  LET elements == PropertyElements(dom)
      boundary == Boundary(dom, node, offset)
      next == FirstFollowing(elements, boundary)
      prev == LastPreceding(elements, boundary)
      last == elements[Len(elements)]
  IN IF direction = "left"
     THEN Coordinate(SplitPath(dom[prev].path), CountCharacters(dom, prev))
     ELSE IF next # 0 THEN Coordinate(SplitPath(dom[next].path), 0)
          ELSE Coordinate(SplitPath(dom[last].path), CountCharacters(dom, last))

\* a lookup that does not search when the node has no data-path ancestor
GetModelCoordinateWithoutSearch(dom, node, offset, direction) ==
  LET propertyEl == PropertyElOf(dom, node) IN
  IF propertyEl = 0 THEN NoCoordinate
  ELSE Coordinate(SplitPath(dom[propertyEl].path),
                  ComputeCharPosition(dom, propertyEl, node, offset))

\* surfaceSelection.getModelCoordinate(node, offset, options)
GetModelCoordinate(dom, node, offset, direction) ==
  LET propertyEl == PropertyElOf(dom, node) IN
  IF propertyEl = 0 THEN SearchForCoordinate(dom, node, offset, direction)
  ELSE Coordinate(SplitPath(dom[propertyEl].path),
                  ComputeCharPosition(dom, propertyEl, node, offset))

\* ---------------------------------------------------------------- state
VARIABLES
  data,                \* this.data: the live store
  annotationIndex,     \* this.annotationIndex: annotation ids by path
  stageData,           \* this.stage.data: the shadow store
  stageOps,            \* this.stage.ops: ops buffered by the running transaction
  stageBefore,         \* this.stage.before
  isTransacting,       \* this.isTransacting
  done,                \* this.done
  undone,              \* this.undone
  FORCE_TRANSACTIONS,  \* this.FORCE_TRANSACTIONS
  proxyThrows,         \* onDocumentChanged of the proxy in this.eventProxies throws
  listenerThrows,      \* a listener of transaction:started throws
  inCallback,          \* control is inside the transformation of transaction()
  txBefore,            \* transaction()'s beforeState argument
  txInfo,              \* transaction()'s eventData argument, normalised
  txDone,              \* history: the length of done when that call began
  callers,             \* the arguments of the transaction() calls whose transformation
                       \* waits inside a transaction() call of its own, outermost first
  lastOp,              \* the operation that ran last
  lastErr,             \* the error it threw, or "none"
  events,              \* what that operation emitted, in order
  hist,                \* history: the live store after each commit, while clean
  clean,               \* history: only transactions, undo and redo changed the store
  direct,              \* history: the number of calls against the transaction discipline:
                       \* direct mutations, replays inside a transaction, and calls a
                       \* transformation makes after its transaction has ended
  snaps,               \* history: the states before each undo not yet redone
  dropped,             \* history: how many undone changes the last call discarded
  loaded,              \* history: the document was filled by loadSeed
  caNodes,             \* the container annotations of the document queried
  qArgs,               \* the arguments of the last container-annotation query
  qResult,             \* what that query returned
  surface,             \* the DOM under the surface element
  coorArgs,            \* the arguments of the last coordinate lookup
  coor                 \* the coordinate it returned

vars == <<data, annotationIndex, stageData, stageOps, stageBefore, isTransacting, done, undone,
          FORCE_TRANSACTIONS, proxyThrows, listenerThrows, inCallback, txBefore, txInfo,
          txDone, callers, lastOp, lastErr,
          events, hist, clean, direct, snaps, dropped, loaded,
          caNodes, qArgs, qResult, surface, coorArgs, coor>>

queryVars == <<caNodes, qArgs, qResult>>

surfaceVars == <<surface, coorArgs, coor>>

docVars == <<data, annotationIndex, stageData, stageOps, stageBefore, isTransacting, done, undone>>

\* the document as constructed: empty stores, empty history, idle, transactions not forced
DocInit ==
  /\ data = EmptyStore
  /\ annotationIndex = EmptyIndex
  /\ stageData = EmptyStore
  /\ stageOps = <<>>
  /\ stageBefore = NoState
  /\ isTransacting = FALSE
  /\ done = <<>>
  /\ undone = <<>>
  /\ FORCE_TRANSACTIONS = FALSE
  /\ proxyThrows = FALSE
  /\ listenerThrows = FALSE
  /\ inCallback = FALSE
  /\ txBefore = NoState
  /\ txInfo = "{}"
  /\ txDone = 0
  /\ callers = <<>>
  /\ lastOp = "new"
  /\ lastErr = "none"
  /\ events = <<>>
  /\ hist = <<EmptyStore>>
  /\ clean = TRUE
  /\ direct = 0
  /\ snaps = <<>>
  /\ dropped = 0
  /\ loaded = FALSE

\* no surface attached, no coordinate looked up
SurfaceIdle ==
  /\ surface = <<>>
  /\ coorArgs = NoCall
  /\ coor = NoCoordinate

\* no container annotations, none queried
QueryIdle ==
  /\ caNodes = [id \in CaIds |-> NoCaNode]
  /\ qArgs = NoQuery
  /\ qResult = NoResult

Init ==
  /\ DocInit
  /\ QueryIdle
  /\ SurfaceIdle

\* the document's fields as a record, at the start of a call
Cur ==
  [data |-> data, annotationIndex |-> annotationIndex,
   stageData |-> stageData, stageOps |-> stageOps,
   stageBefore |-> stageBefore, isTransacting |-> isTransacting,
   done |-> done, undone |-> undone, proxyThrows |-> proxyThrows,
   listenerThrows |-> listenerThrows,
   events |-> <<>>, err |-> "none"]

\* ------------------------------------------------ handlers of Document
\* startTransaction without the check for an active transaction
StartTransactionUnchecked(s, beforeState) ==
  LET s1 == [s EXCEPT !.isTransacting = TRUE, !.stageBefore = beforeState]
  IN [s1 EXCEPT !.events = Append(@, Event("transaction:started", NoChange, "{}", s1))]

\* Document.startTransaction(beforeState)
StartTransactionOn(s, beforeState) ==
  IF s.isTransacting THEN Throw(s, "NestedTransaction")
  ELSE LET s1 == [s EXCEPT !.isTransacting = TRUE, !.stageBefore = beforeState]
           s2 == [s1 EXCEPT !.events =
                               Append(@, Event("transaction:started", NoChange, "{}", s1))]
       IN IF s.listenerThrows THEN Throw(s2, "ListenerError") ELSE s2

\* Document.transaction, up to the call of the transformation: the arguments
\* are checked first, then the transaction is started
TransactionOn(s, beforeState, transformation) ==
  IF transformation # "function" THEN Throw(s, "TransformationRequired")
  ELSE StartTransactionOn(s, beforeState)

\* create that records a direct mutation on done as a one-op change
DocCreateRecorded(s, req) ==
  IF FORCE_TRANSACTIONS THEN Throw(s, "UseATransaction")
  ELSE IF s.isTransacting THEN StageMutate(s, req)
  ELSE LET s1 == StageMutate(s, req)
           s2 == IF s1.err # "none" THEN s1 ELSE LiveMutate(s1, req)
       IN IF s2.err # "none" THEN s2
          ELSE [s2 EXCEPT !.done = Append(@, DocumentChange(<<MakeOp(s.data, req)>>,
                                                           NoState, NoState))]

\* Document.create(nodeData)
DocCreateOn(s, req) ==
  IF FORCE_TRANSACTIONS THEN Throw(s, "UseATransaction")
  ELSE IF s.isTransacting THEN StageMutate(s, req)
  ELSE LET s1 == StageMutate(s, req) IN
       IF s1.err # "none" THEN s1 ELSE LiveMutate(s1, req)

\* delete that does not look at FORCE_TRANSACTIONS
DocDeleteUnforced(s, req) ==
  IF s.isTransacting THEN StageMutate(s, req)
  ELSE LET s1 == StageMutate(s, req) IN
       IF s1.err # "none" THEN s1 ELSE LiveMutate(s1, req)

\* Document.delete(nodeId)
DocDeleteOn(s, req) ==
  IF FORCE_TRANSACTIONS THEN Throw(s, "UseATransaction")
  ELSE IF s.isTransacting THEN StageMutate(s, req)
  ELSE LET s1 == StageMutate(s, req) IN
       IF s1.err # "none" THEN s1 ELSE LiveMutate(s1, req)

\* set that writes through to the live store while a transaction is active
DocSetWriteThrough(s, req) ==
  IF FORCE_TRANSACTIONS THEN Throw(s, "UseATransaction")
  ELSE LET s1 == StageMutate(s, req) IN
       IF s1.err # "none" THEN s1 ELSE LiveMutate(s1, req)

\* Document.set(path, value)
DocSetOn(s, req) ==
  IF FORCE_TRANSACTIONS THEN Throw(s, "UseATransaction")
  ELSE IF s.isTransacting THEN StageMutate(s, req)
  ELSE LET s1 == StageMutate(s, req) IN
       IF s1.err # "none" THEN s1 ELSE LiveMutate(s1, req)

\* Document.update(path, diff): the live store first, then the stage
DocUpdateOn(s, req) ==
  IF FORCE_TRANSACTIONS THEN Throw(s, "UseATransaction")
  ELSE IF s.isTransacting THEN StageMutate(s, req)
  ELSE LET s1 == LiveMutate(s, req) IN
       IF s1.err # "none" THEN s1 ELSE StageMutate(s1, req)

\* undo that replays the popped change as it is, without inverting it
UndoReplaysForward(s) ==
  IF s.done = <<>> THEN s
  ELSE LET change == s.done[Len(s.done)]
           s1 == [s EXCEPT !.done = SubSeq(@, 1, Len(@) - 1)]
           s2 == Apply(s1, change, "both")
       IN IF s2.err # "none" THEN s2
          ELSE NotifyChangeListeners([s2 EXCEPT !.undone = Append(@, change)],
                                     change, "{replay:true}")

\* undo that throws when there is nothing to undo
UndoThrowsWhenEmpty(s) ==
  IF s.done = <<>> THEN Throw(s, "NoChangeToUndo")
  ELSE LET change == s.done[Len(s.done)]
           s1 == [s EXCEPT !.done = SubSeq(@, 1, Len(@) - 1)]
           inverted == Invert(change)
           s2 == Apply(s1, inverted, "both")
       IN IF s2.err # "none" THEN s2
          ELSE NotifyChangeListeners([s2 EXCEPT !.undone = Append(@, inverted)],
                                     inverted, "{replay:true}")

\* Document.undo
UndoOn(s) ==
  IF s.done = <<>> THEN s
  ELSE LET change == s.done[Len(s.done)]
           s1 == [s EXCEPT !.done = SubSeq(@, 1, Len(@) - 1)]
           inverted == Invert(change)
           s2 == Apply(s1, inverted, "both")
       IN IF s2.err # "none" THEN s2
          ELSE NotifyChangeListeners([s2 EXCEPT !.undone = Append(@, inverted)],
                                     inverted, "{replay:true}")

\* redo that records the change popped from undone instead of its inverse
RedoRecordsPopped(s) ==
  IF s.undone = <<>> THEN s
  ELSE LET change == s.undone[Len(s.undone)]
           s1 == [s EXCEPT !.undone = SubSeq(@, 1, Len(@) - 1)]
           inverted == Invert(change)
           s2 == Apply(s1, inverted, "both")
       IN IF s2.err # "none" THEN s2
          ELSE NotifyChangeListeners([s2 EXCEPT !.done = Append(@, change)],
                                     inverted, "{replay:true}")

\* Document.redo
RedoOn(s) ==
  IF s.undone = <<>> THEN s
  ELSE LET change == s.undone[Len(s.undone)]
           s1 == [s EXCEPT !.undone = SubSeq(@, 1, Len(@) - 1)]
           inverted == Invert(change)
           s2 == Apply(s1, inverted, "both")
       IN IF s2.err # "none" THEN s2
          ELSE NotifyChangeListeners([s2 EXCEPT !.done = Append(@, inverted)],
                                     inverted, "{replay:true}")

\* selections passed to the queries: a property selection on a path with start
\* and end offsets, or a container selection
PropertySelection(path, startOffset, endOffset) ==
  [isPropertySelection |-> TRUE, path |-> path,
   startOffset |-> startOffset, endOffset |-> endOffset]

ContainerSelection ==
  [isPropertySelection |-> FALSE, path |-> <<"p1", "content">>,
   startOffset |-> 0, endOffset |-> 0]

\* annotations that ignore options.type
GetAnnotationsOfAnyType(s, sel, options) ==
  IF sel.isPropertySelection
  THEN IndexGet(s.annotationIndex, s.data, sel.path, sel.startOffset, sel.endOffset)
  ELSE {}

\* Document.getAnnotationsForSelection(sel, options)
GetAnnotationsForSelection(s, sel, options) ==
  IF sel.isPropertySelection
  THEN LET annotations == IndexGet(s.annotationIndex, s.data, sel.path,
                                   sel.startOffset, sel.endOffset)
       IN IF options.type # "undefined"
          THEN {id \in annotations : s.data[id].type = options.type}
          ELSE annotations
  ELSE {}

\* Document.getContainerAnnotationsForSelection(sel, container, options) on a
\* document whose annotations with a getSelection are nodes
GetContainerAnnotationsForSelection(nodes, sel, container, options) ==
  IF container = "undefined" THEN [err |-> "none", annotations |-> {}]
  ELSE IF ~options.defined THEN [err |-> "TypeError", annotations |-> {}]
  ELSE LET annotations == IF options.type # "undefined"
                          THEN TypeIndexGet(nodes, options.type)
                          ELSE ContainerAnnotationsById(nodes)
       IN [err |-> "none",
           annotations |-> {id \in annotations : Overlaps(sel, GetSelection(nodes[id]))}]

\* the result of a transformation: nothing (undefined), or an object that may
\* carry the key selection
Undefined == [defined |-> FALSE, selection |-> "absent"]

Result(v) == [defined |-> TRUE, selection |-> v]

\* Document.transaction, from the return of the transformation: the loop that
\* builds afterState from the keys of beforeState, and the automatic save
AfterState(beforeState, result) ==
  [selection |-> IF beforeState.selection = "absent" THEN "absent"
                 ELSE IF Truthy(result.selection) THEN result.selection
                 ELSE beforeState.selection]

\* result[key] on an undefined result is a TypeError
AfterStateThrows(beforeState, result) ==
  beforeState.selection # "absent" /\ ~result.defined

\* finally { tx.finish() }: the error of the try block, if any, goes on, unless
\* finish throws itself
TransactionFinally(s) ==
  LET f == TxFinish([s EXCEPT !.err = "none"]) IN
  [f EXCEPT !.err = IF f.err # "none" THEN f.err ELSE s.err]

\* a transaction() that saves without asking whether the transaction is
\* still active
TransactionReturnAlwaysSaves(s, beforeState, eventData, result) ==
  TransactionFinally(
    IF AfterStateThrows(beforeState, result) THEN Throw(s, "TypeError")
    ELSE TxSave(s, AfterState(beforeState, result), eventData))

TransactionReturnOn(s, beforeState, eventData, result) ==
  TransactionFinally(
    IF AfterStateThrows(beforeState, result) THEN Throw(s, "TypeError")
    ELSE IF s.isTransacting
         THEN TxSave(s, AfterState(beforeState, result), eventData)
         ELSE s)

\* Document.transaction, when the transformation throws
TransactionThrowOn(s) == TransactionFinally(Throw(s, "TransformationError"))

RECURSIVE StageLoadSeed(_, _)
\* tx.loadSeed(seed): every node of the seed is created on the stage, in order
StageLoadSeed(s, seed) ==
  IF seed = <<>> \/ s.err # "none" THEN s
  ELSE StageLoadSeed(StageMutate(s, Req("create", Head(seed).id, Head(seed).node,
                                        <<>>, NoDiff)),
                     Tail(seed))

\* Document.loadSeed(seed): this.transaction(function(tx) { tx.loadSeed(seed); })
LoadSeedOn(s, seed) ==
  LET s1 == StartTransactionOn(s, NoState) IN
  IF s1.err # "none" THEN s1
  ELSE LET s2 == StageLoadSeed(s1, seed) IN
       IF s2.err # "none" THEN TransactionFinally(s2)
       ELSE TransactionReturnOn(s2, NoState, "undefined", Undefined)

\* Document.documentDidLoad
DocumentDidLoadOn(s) == [StageReset(s) EXCEPT !.done = <<>>]

\* ------------------------------------------------------------- inputs
\* the values the enumerated calls are made with
CreateTexts == {<<"a">>}

SetTexts == {<<"b">>}

InsertChars == {"b"}

AnnoRanges == {<<0, 1>>}

\* what is passed as transformation: a function, or something else
Transformations == {"function", "not a function"}

\* the call forms transaction(transformation), transaction(beforeState,
\* transformation) and transaction(beforeState, eventData, transformation):
\* a beforeState without or with a key, eventData missing or filled, each
\* with a transformation function, and one call without such a function
TransactionArgs ==
  ({NoState, SelState("A")} \X {"undefined", "{event-hack:true}"} \X {"function"})
    \cup {<<NoState, "undefined", "not a function">>}

Results == {Undefined, Result("absent"), Result("null"), Result("B")}

\* the arguments of an explicit tx.save(afterState, info)
SaveArgs == {<<NoState, "undefined">>}

\* snapshots: the nodes of a document with a text and an annotation on it
Seeds ==
  {<<[id |-> "p1", node |-> Para(t)], [id |-> "s1", node |-> Anno(r[1], r[2])]>> :
     t \in CreateTexts, r \in AnnoRanges}

\* query selections: ranges over the text and just past it, on both paths
Selections ==
  {PropertySelection(p, a, b) :
     p \in Paths, a \in 0..(MaxTextLen + 1), b \in 0..(MaxTextLen + 1)}
    \cup {ContainerSelection}

\* query options: no type, the type of the annotations, another type
QueryOptions == {[type |-> t] : t \in {"undefined", "strong", "emphasis"}}

CreateReqs ==
  {Req("create", "p1", Para(t), <<>>, NoDiff) : t \in CreateTexts}
    \cup {Req("create", "s1", Anno(r[1], r[2]), <<>>, NoDiff) : r \in AnnoRanges}

DeleteReqs == {Req("delete", id, NoNode, <<>>, NoDiff) : id \in NodeIds}

SetReqs == {Req("set", "p1", NoNode, t, NoDiff) : t \in SetTexts}

\* string splices on [p1, content] as seen by a caller reading store st: one
\* character inserted at a position, or the character at a position deleted
UpdateReqs(st) ==
  LET text == st["p1"].content IN
  {Req("update", "p1", NoNode, <<>>, [kind |-> "insert", pos |-> i, str |-> <<c>>]) :
     i \in {j \in 0..MaxTextLen : Len(text) < MaxTextLen}, c \in InsertChars}
    \cup
  {Req("update", "p1", NoNode, <<>>,
       [kind |-> "delete", pos |-> i,
        str |-> IF i < Len(text) THEN <<text[i + 1]>> ELSE <<"a">>]) :
     i \in 0..(MaxTextLen - 1)}

\* ------------------------------------------------------------- history
Snap == [data |-> data, stageData |-> stageData, done |-> done, undone |-> undone]

\* a call that has applied and recorded its change, whether or not the
\* notification that follows went through
Done(s) == s.err \in {"none", "ProxyError"}

\* a call that changed a store behind the history's back, or a replay that threw
Dirty(s, op) ==
  \/ op = "mutate" /\ ~isTransacting /\ (s.data # data \/ s.stageData # stageData)
  \/ op \in {"undo", "redo"} /\ ~Done(s)
  \/ op \in {"save", "return"} /\ s.err = "InvalidOperation"

Committed(s, op) ==
  /\ (op \in {"save", "return"} /\ isTransacting) \/ op = "load"
  /\ Len(s.done) = Len(done) + 1

\* the fields after a call, and the history kept about it
Becomes(s, op) ==
  /\ data' = s.data
  /\ annotationIndex' = s.annotationIndex
  /\ stageData' = s.stageData
  /\ stageOps' = s.stageOps
  /\ stageBefore' = s.stageBefore
  /\ isTransacting' = s.isTransacting
  /\ done' = s.done
  /\ undone' = s.undone
  /\ events' = s.events
  /\ lastErr' = s.err
  /\ lastOp' = op
  /\ UNCHANGED <<proxyThrows, listenerThrows, queryVars, surfaceVars>>
  /\ hist' = IF ~clean \/ Dirty(s, op) THEN <<>>
             ELSE IF Committed(s, op)
                  THEN Append(SubSeq(hist, 1, Len(done) + 1), s.data)
                  ELSE IF op = "didLoad" THEN <<s.data>>
                  ELSE hist
  /\ clean' = (clean /\ ~Dirty(s, op))
  /\ direct' = IF \/ op = "mutate" /\ ~isTransacting /\ s.err # "UseATransaction"
                  \/ op \in {"undo", "redo"} /\ isTransacting
                  \/ op \in {"start", "undo", "redo"} /\ inCallback /\ ~isTransacting
               THEN direct + 1 ELSE direct
  /\ snaps' = IF op = "undo" /\ Done(s) /\ done # <<>> THEN Append(snaps, Snap)
              ELSE IF op = "redo" /\ Done(s) /\ undone # <<>> /\ snaps # <<>>
                   THEN SubSeq(snaps, 1, Len(snaps) - 1)
                   ELSE <<>>
  /\ loaded' = (loaded \/ op = "load")
  /\ dropped' = IF op \in {"undo", "redo"} \/ Len(s.undone) >= Len(undone) THEN 0
                ELSE Len(undone) - Len(s.undone)

\* -------------------------------------------------------------- actions
\* a call made by a transformation after its transaction has ended (it was
\* saved or cancelled): the document takes it like a call from outside
Late == inCallback /\ ~isTransacting

\* A commit that throws while applying its ops leaves them buffered on the
\* stage, and every later commit would apply them again: runs are not followed
\* into a new transaction from there, which keeps the stores finite.
Startable == isTransacting \/ stageOps = <<>>

\* doc.transaction(beforeState, eventData, transformation), up to the call of
\* the transformation
Transaction(beforeState, eventData, transformation) ==
  /\ Startable
  /\ Late => (direct < MaxDirect /\ Len(callers) < MaxNesting)
  /\ Len(done) < (IF \/ isTransacting \/ FORCE_TRANSACTIONS \/ proxyThrows
                     \/ listenerThrows
                     \/ beforeState # NoState \/ eventData # "undefined"
                     \/ transformation # "function"
                     \/ direct > 0 \/ loaded
                  THEN MaxVariant ELSE MaxChanges)
  /\ isTransacting => direct = 0
  /\ (beforeState # NoState \/ eventData # "undefined" \/ transformation # "function")
       => Len(undone) < MaxVariant
  /\ LET s == TransactionOn(Cur, beforeState, transformation) IN
     /\ Becomes(s, "start")
     /\ inCallback' = IF s.err = "none" THEN TRUE ELSE inCallback
     /\ txBefore' = IF s.err = "none" THEN beforeState ELSE txBefore
     /\ txInfo' = IF s.err = "none" THEN InfoOrEmpty(eventData) ELSE txInfo
     /\ txDone' = IF s.err = "none" THEN Len(done) ELSE txDone
     /\ callers' = IF s.err = "none" /\ inCallback
                    THEN Append(callers, [before |-> txBefore, info |-> txInfo,
                                          done |-> txDone])
                    ELSE callers
  /\ UNCHANGED FORCE_TRANSACTIONS

\* doc.startTransaction(beforeState)
StartTransaction(beforeState) ==
  /\ Startable
  /\ Len(done) < (IF Late THEN MaxChanges ELSE MaxVariant) /\ direct = 0 /\ ~loaded
  /\ Becomes(StartTransactionOn(Cur, beforeState), "start")
  /\ UNCHANGED <<FORCE_TRANSACTIONS, inCallback, txBefore, txInfo, txDone, callers>>

Seen == IF isTransacting THEN stageData ELSE data

\* the enumerated mutations: those the bounds leave room for, and that do not
\* merely throw on an invalid request
Room == IF isTransacting THEN Len(stageOps) < MaxOps ELSE direct < MaxDirect

Effective(s) == s.err \in {"none", "UseATransaction"} \/ s.data # data \/ s.stageData # stageData

DocCreate ==
  /\ Room
  /\ \E req \in CreateReqs :
       /\ Effective(DocCreateOn(Cur, req))
       /\ Becomes(DocCreateOn(Cur, req), "mutate")
  /\ UNCHANGED <<FORCE_TRANSACTIONS, inCallback, txBefore, txInfo, txDone, callers>>

DocDelete ==
  /\ Room
  /\ \E req \in DeleteReqs :
       /\ Effective(DocDeleteOn(Cur, req))
       /\ Becomes(DocDeleteOn(Cur, req), "mutate")
  /\ UNCHANGED <<FORCE_TRANSACTIONS, inCallback, txBefore, txInfo, txDone, callers>>

DocSet ==
  /\ Room
  /\ \E req \in SetReqs :
       /\ Effective(DocSetOn(Cur, req))
       /\ Becomes(DocSetOn(Cur, req), "mutate")
  /\ UNCHANGED <<FORCE_TRANSACTIONS, inCallback, txBefore, txInfo, txDone, callers>>

DocUpdate ==
  /\ Room
  /\ \E req \in UpdateReqs(Seen) :
       /\ Effective(DocUpdateOn(Cur, req))
       /\ Becomes(DocUpdateOn(Cur, req), "mutate")
  /\ UNCHANGED <<FORCE_TRANSACTIONS, inCallback, txBefore, txInfo, txDone, callers>>

\* tx.create / tx.delete / tx.set / tx.update inside a transaction
TxMutate ==
  /\ isTransacting /\ Room
  /\ \E req \in CreateReqs \cup DeleteReqs \cup SetReqs \cup UpdateReqs(stageData) :
       /\ Effective(StageMutate(Cur, req))
       /\ Becomes(StageMutate(Cur, req), "mutate")
  /\ UNCHANGED <<FORCE_TRANSACTIONS, inCallback, txBefore, txInfo, txDone, callers>>

\* tx.save(afterState, info), called by the transformation or by the owner of
\* a transaction opened with startTransaction
TxSaveCall(afterState, info) ==
  /\ isTransacting
  /\ Becomes(TxSave(Cur, afterState, info), "save")
  /\ UNCHANGED <<FORCE_TRANSACTIONS, inCallback, txBefore, txInfo, txDone, callers>>

\* tx.cancel()
TxCancelCall ==
  /\ isTransacting
  /\ Becomes(TxCancel(Cur), "cancel")
  /\ UNCHANGED <<FORCE_TRANSACTIONS, inCallback, txBefore, txInfo, txDone, callers>>

\* tx.finish() / tx.cleanup()
TxFinishCall ==
  /\ isTransacting
  /\ Becomes(TxFinish(Cur), "cancel")
  /\ UNCHANGED <<FORCE_TRANSACTIONS, inCallback, txBefore, txInfo, txDone, callers>>

\* control leaves doc.transaction: it goes back to the transformation that
\* made the call, or out of every transformation
Resume ==
  IF callers = <<>>
  THEN /\ inCallback' = FALSE
       /\ txBefore' = NoState
       /\ txInfo' = "{}"
       /\ txDone' = 0
       /\ callers' = <<>>
  ELSE /\ inCallback' = TRUE
       /\ txBefore' = callers[Len(callers)].before
       /\ txInfo' = callers[Len(callers)].info
       /\ txDone' = callers[Len(callers)].done
       /\ callers' = SubSeq(callers, 1, Len(callers) - 1)

\* the transformation returns result: doc.transaction runs to its end
TransactionReturn(result) ==
  /\ inCallback
  /\ Becomes(TransactionReturnOn(Cur, txBefore, txInfo, result), "return")
  /\ Resume
  /\ UNCHANGED FORCE_TRANSACTIONS

\* the transformation throws: doc.transaction runs its finally block
TransactionThrow ==
  /\ inCallback
  /\ Becomes(TransactionThrowOn(Cur), "throw")
  /\ Resume
  /\ UNCHANGED FORCE_TRANSACTIONS

Undo ==
  /\ (isTransacting \/ Late) => direct < MaxDirect
  /\ Becomes(UndoOn(Cur), "undo")
  /\ UNCHANGED <<FORCE_TRANSACTIONS, inCallback, txBefore, txInfo, txDone, callers>>

Redo ==
  /\ (isTransacting \/ Late) => direct < MaxDirect
  /\ Becomes(RedoOn(Cur), "redo")
  /\ UNCHANGED <<FORCE_TRANSACTIONS, inCallback, txBefore, txInfo, txDone, callers>>

\* doc.loadSeed(seed) on a new document, as Document.fromSnapshot(seed) does
LoadSeed(seed) ==
  /\ ~isTransacting /\ ~inCallback /\ done = <<>> /\ undone = <<>>
  /\ data = EmptyStore /\ stageData = EmptyStore /\ stageOps = <<>>
  /\ Becomes(LoadSeedOn(Cur, seed), "load")
  /\ UNCHANGED <<FORCE_TRANSACTIONS, inCallback, txBefore, txInfo, txDone, callers>>

\* doc.documentDidLoad(), called by the application once it has loaded the seed
DocumentDidLoad ==
  /\ lastOp = "load" /\ lastErr = "none"
  /\ Becomes(DocumentDidLoadOn(Cur), "didLoad")
  /\ UNCHANGED <<FORCE_TRANSACTIONS, inCallback, txBefore, txInfo, txDone, callers>>

\* doc.FORCE_TRANSACTIONS = b, set while the document has no history yet
SetForceTransactions(b) ==
  /\ FORCE_TRANSACTIONS # b
  /\ ~isTransacting /\ ~inCallback /\ done = <<>> /\ undone = <<>>
  /\ ~proxyThrows /\ ~listenerThrows /\ ~loaded
  /\ FORCE_TRANSACTIONS' = b
  /\ lastOp' = "force"
  /\ lastErr' = "none"
  /\ events' = <<>>
  /\ snaps' = <<>>
  /\ dropped' = 0
  /\ UNCHANGED <<loaded, queryVars, surfaceVars>>
  /\ UNCHANGED <<docVars, proxyThrows, listenerThrows, inCallback, txBefore, txInfo, txDone, callers, hist, clean, direct>>

\* the proxy registered in doc.eventProxies starts (b) or stops (~b) throwing
\* from onDocumentChanged, e.g. because a callback that throws is added to it
\* or removed from it; enumerated while the document has no history yet
SetProxyThrows(b) ==
  /\ proxyThrows # b
  /\ ~isTransacting /\ ~inCallback /\ done = <<>> /\ undone = <<>>
  /\ ~FORCE_TRANSACTIONS /\ direct = 0 /\ ~loaded /\ ~listenerThrows
  /\ proxyThrows' = b
  /\ lastOp' = "proxy"
  /\ lastErr' = "none"
  /\ events' = <<>>
  /\ snaps' = <<>>
  /\ dropped' = 0
  /\ UNCHANGED <<loaded, queryVars, surfaceVars>>
  /\ UNCHANGED <<docVars, FORCE_TRANSACTIONS, listenerThrows, inCallback, txBefore,
                 txInfo, txDone, callers, hist, clean, direct>>

\* a listener of transaction:started that throws is connected (b) or
\* disconnected (~b); enumerated while the document has no history yet
SetListenerThrows(b) ==
  /\ listenerThrows # b
  /\ ~isTransacting /\ ~inCallback /\ done = <<>> /\ undone = <<>>
  /\ ~FORCE_TRANSACTIONS /\ direct = 0 /\ ~loaded /\ ~proxyThrows
  /\ listenerThrows' = b
  /\ lastOp' = "listen"
  /\ lastErr' = "none"
  /\ events' = <<>>
  /\ snaps' = <<>>
  /\ dropped' = 0
  /\ UNCHANGED <<loaded, queryVars, surfaceVars>>
  /\ UNCHANGED <<docVars, FORCE_TRANSACTIONS, proxyThrows, inCallback, txBefore,
                 txInfo, txDone, callers, hist, clean, direct>>

Next ==
  \/ \E a \in TransactionArgs : Transaction(a[1], a[2], a[3])
  \/ StartTransaction(NoState)
  \/ DocCreate
  \/ DocDelete
  \/ DocSet
  \/ DocUpdate
  \/ TxMutate
  \/ \E a \in SaveArgs : TxSaveCall(a[1], a[2])
  \/ TxCancelCall
  \/ TxFinishCall
  \/ \E r \in Results : TransactionReturn(r)
  \/ TransactionThrow
  \/ Undo
  \/ Redo
  \/ \E b \in BOOLEAN : SetForceTransactions(b)
  \/ \E b \in BOOLEAN : SetProxyThrows(b)
  \/ \E b \in BOOLEAN : SetListenerThrows(b)
  \/ \E seed \in Seeds : LoadSeed(seed)
  \/ DocumentDidLoad

Spec == Init /\ [][Next]_vars

\* ------------------------------------------- container-annotation queries
\* a document holding any container annotations, queried with a selection, a
\* container (or none) and options (or none)
QueryInit ==
  /\ DocInit
  /\ caNodes \in [CaIds -> CaNodeVals]
  /\ qArgs = NoQuery
  /\ qResult = NoResult
  /\ SurfaceIdle

QuerySels == {[startPos |-> a, endPos |-> b] : a \in 0..MaxPos, b \in 0..MaxPos}

QueryContainers == {"undefined", "main", "sidebar"}

ContainerQueryOptions ==
  {[defined |-> TRUE, type |-> t] : t \in {"undefined", "comment", "highlight"}}
    \cup {[defined |-> FALSE, type |-> "undefined"]}

QueryContainerAnnotations(sel, container, options) ==
  /\ sel.startPos <= sel.endPos
  /\ qArgs' = [sel |-> sel, container |-> container, options |-> options, asked |-> TRUE]
  /\ qResult' = GetContainerAnnotationsForSelection(caNodes, sel, container, options)
  /\ UNCHANGED <<docVars, FORCE_TRANSACTIONS, proxyThrows, listenerThrows, inCallback,
                 txBefore,
                 txInfo, txDone, callers, lastOp, lastErr, events, hist, clean, direct, snaps,
                 dropped, loaded, caNodes, surfaceVars>>

QueryNext ==
  \E sel \in QuerySels, container \in QueryContainers, options \in ContainerQueryOptions :
    QueryContainerAnnotations(sel, container, options)

QuerySpec == QueryInit /\ [][QueryNext]_vars

\* ----------------------------------------------------- coordinate lookups
\* a surface showing one of the fixtures; no lookup made yet
SurfaceInit ==
  /\ DocInit
  /\ QueryIdle
  /\ surface \in Fixtures
  /\ coorArgs = NoCall
  /\ coor = NoCoordinate

\* the DOM points of the surface: a text node with a character offset, an
\* element with a child index (which may lie past its last child)
DomPoints ==
  {p \in (1..Len(surface)) \X (0..MaxOffset) :
     surface[p[1]].kind = "text" => p[2] <= surface[p[1]].length}

\* options: {} and {direction: 'left'}
Directions == {"undefined", "left"}

\* a search to the left is made from points that have a property before them
Searchable(node, offset, direction) ==
  direction = "left"
    => LastPreceding(PropertyElements(surface), Boundary(surface, node, offset)) # 0

SurfaceLookup(fn, node, offset, direction, result) ==
  /\ coorArgs' = [fn |-> fn, node |-> node, offset |-> offset, direction |-> direction]
  /\ coor' = result
  /\ UNCHANGED <<docVars, FORCE_TRANSACTIONS, proxyThrows, listenerThrows, inCallback,
                 txBefore,
                 txInfo, txDone, callers, lastOp, lastErr, events, hist, clean, direct, snaps,
                 dropped, loaded, queryVars, surface>>

SurfaceGetModelCoordinate(node, offset, direction) ==
  /\ PropertyElOf(surface, node) = 0 => Searchable(node, offset, direction)
  /\ SurfaceLookup("getModelCoordinate", node, offset, direction,
                   GetModelCoordinate(surface, node, offset, direction))

\* called, as getModelCoordinate calls it, for points outside the properties
SurfaceSearchForCoordinate(node, offset, direction) ==
  /\ PropertyElOf(surface, node) = 0
  /\ Searchable(node, offset, direction)
  /\ SurfaceLookup("searchForCoordinate", node, offset, direction,
                   SearchForCoordinate(surface, node, offset, direction))

SurfaceNext ==
  \/ \E p \in DomPoints, d \in Directions : SurfaceGetModelCoordinate(p[1], p[2], d)
  \/ \E p \in DomPoints, d \in Directions : SurfaceSearchForCoordinate(p[1], p[2], d)

SurfaceSpec == SurfaceInit /\ [][SurfaceNext]_vars

\* ---------------------------------------------------------------- claims
EmitsChanged(evs) == \E i \in 1..Len(evs) : evs[i].name = "document:changed"

\* C1: a start (startTransaction() or transaction()) made while a transaction
\* is active fails with the nested-transaction error (a transaction() without
\* a transformation function: with the error of that) and changes nothing: the
\* transaction stays active, and the stage's before-state, its buffered ops, its
\* store, the live store, done and undone are as they were.
C1_NestedStartRejected ==
  [][(isTransacting /\ lastOp' = "start")
       => /\ lastErr' \in {"NestedTransaction", "TransformationRequired"}
          /\ isTransacting'
          /\ UNCHANGED <<stageBefore, stageOps, stageData, data, done, undone>>]_vars

\* a start was rejected inside a transaction that has buffered ops
C1_Witness ==
  /\ isTransacting /\ lastOp = "start" /\ lastErr = "NestedTransaction"
  /\ stageOps # <<>> /\ stageData # data

\* C2: while a transaction is active a create/delete/set/update, on the stage or
\* on the document, changes the stage only: the live store, done and undone stay
\* as they are, the transaction stays active and no document:changed is emitted.
C2_MutationsStayOnStage ==
  [][(isTransacting /\ lastOp' = "mutate")
       => /\ data' = data /\ done' = done /\ undone' = undone
          /\ isTransacting'
          /\ ~EmitsChanged(events')]_vars

\* a mutation was buffered: the stage is ahead of the live store
C2_Witness ==
  /\ isTransacting /\ lastOp = "mutate" /\ lastErr = "none" /\ ~FORCE_TRANSACTIONS
  /\ Len(stageOps) = MaxOps /\ stageData # data /\ done # <<>>

\* C3: whenever no transaction is active the stage's store equals the live store.
C3_StageMirrorsLive == ~isTransacting => stageData = data

\* how a call that applies a change ends: it returns, unless the proxy throws
\* when it is notified
Outcome == IF proxyThrows THEN "ProxyError" ELSE "none"

\* the top of a stack, and the stack without it
Top(stack) == stack[Len(stack)]
Pop(stack) == SubSeq(stack, 1, Len(stack) - 1)

C5_UndoRedoIdentity ==
  [][(lastOp' = "redo" /\ ~isTransacting /\ snaps # <<>>)
       => (lastErr' = Outcome /\ Snap' = Top(snaps))]_vars

\* C5, amended: the same, provided the stores have been changed only by
\* committed transactions and by undos and redos that completed (nothing was
\* mutated directly on the document outside a transaction and no undo or redo
\* was rejected).
C5_UndoRedoIdentityOfHistory ==
  [][(lastOp' = "redo" /\ ~isTransacting /\ snaps # <<>> /\ clean)
       => (lastErr' = Outcome /\ Snap' = Top(snaps))]_vars

\* two undos and then the first of two redos: the state before the second undo
\* is restored, the state before the first is still to be restored
C5_Witness ==
  /\ lastOp = "redo" /\ lastErr = "none" /\ clean /\ ~isTransacting
  /\ Len(snaps) = 1 /\ Len(done) = 1 /\ Len(undone) = 1
  /\ done = Pop(snaps[1].done) /\ data # snaps[1].data

\* a step that commits the active transaction
Commits == isTransacting /\ lastOp' \in {"save", "return"} /\ lastErr' = "none"

\* C6: a commit leaves undone empty; an undo only adds to undone and a redo
\* only takes its top; a redo directly after a commit applies nothing.
C6_CommitClearsUndone ==
  [][/\ Commits => undone' = <<>>
     /\ (lastOp' = "undo" /\ ~isTransacting /\ done # <<>> /\ lastErr' = "none")
          => Pop(undone') = undone
     /\ (lastOp' = "redo" /\ ~isTransacting /\ undone # <<>>)
          => undone' = Pop(undone)
     /\ (lastOp \in {"save", "return"} /\ EmitsChanged(events) /\ lastOp' = "redo")
          => (lastErr' = "none" /\ events' = <<>> /\ UNCHANGED docVars)]_vars

\* a commit made after an undo: the change the undo had left on undone is gone
C6_Witness ==
  /\ lastOp \in {"save", "return"} /\ EmitsChanged(events) /\ lastErr = "none"
  /\ dropped = 1 /\ undone = <<>> /\ Len(done) = 2 /\ ~isTransacting

\* C7: when the transformation throws, transaction() rethrows its error, done,
\* undone and the live store stay as they are, no document:changed is emitted,
\* the document is idle and the stage equals the live store.
C7_ThrowRollsBack ==
  [][(inCallback /\ lastOp' = "throw")
       => /\ lastErr' = "TransformationError"
          /\ done' = done /\ undone' = undone /\ data' = data
          /\ ~EmitsChanged(events')
          /\ ~isTransacting'
          /\ stageData' = data']_vars

\* C8: committing a transaction that issued no op leaves the length of done
\* unchanged.
C8_EmptyCommitNotRecorded ==
  [][(Commits /\ stageOps = <<>>) => Len(done') = Len(done)]_vars

\* the requests a caller can make directly on the document
DirectReqs == CreateReqs \cup DeleteReqs \cup SetReqs \cup UpdateReqs(data)

\* C9: with FORCE_TRANSACTIONS off and no transaction active, a direct
\* create/delete/set/update leaves done and undone exactly as they were and,
\* when it succeeds, has applied its op to the live store and to the stage.
C9_DirectMutationUnrecorded ==
  [][(~isTransacting /\ ~FORCE_TRANSACTIONS /\ lastOp' = "mutate")
       => /\ done' = done /\ undone' = undone
          /\ ~isTransacting' /\ stageOps' = stageOps
          /\ lastErr' = "none" =>
               \E req \in DirectReqs :
                 /\ CanApply(data, MakeOp(data, req))
                 /\ data' = ApplyOp(data, MakeOp(data, req))
                 /\ CanApply(stageData, MakeOp(stageData, req))
                 /\ stageData' = ApplyOp(stageData, MakeOp(stageData, req))]_vars

\* a direct mutation made after a commit: both stores moved, done still holds
\* the one committed change
C9_Witness ==
  /\ lastOp = "mutate" /\ lastErr = "none" /\ ~isTransacting /\ ~FORCE_TRANSACTIONS
  /\ direct = 1 /\ ~clean /\ Len(done) = 1 /\ stageData = data
  /\ data # ApplyAll(EmptyStore, done[1].ops).store

\* what the listeners of an applied change see: the proxy first and then one
\* document:changed, both with the change and info, the change being applied
\* and recorded by then
Notified(change, info) ==
  /\ Len(events') = 2
  /\ events'[1].name = "proxy:path" /\ events'[2].name = "document:changed"
  /\ \A i \in 1..2 :
       /\ events'[i].change = change /\ events'[i].info = info
       /\ events'[i].data = data' /\ events'[i].done = done'
       /\ events'[i].undone = undone'
  /\ data' = ApplyAll(data, change.ops).store

\* a call that applied a change and recorded it on its stack: it returned, or
\* the proxy threw when it was notified
Applied == lastErr' \in {"none", "ProxyError"}

\* C10: every commit, undo and redo that applies a change calls the proxy once
\* with (change, info) and then emits exactly one document:changed; at that time
\* the change is applied to the live store and is the top of done (commit, redo)
\* or of undone (undo).
C10_ListenersNotifiedOnce ==
  [][/\ (isTransacting /\ lastOp' \in {"save", "return"} /\ Applied)
          => /\ done' = Append(done, Top(done'))
             /\ Notified(Top(done'), IF lastOp' = "return" THEN txInfo ELSE "{}")
     /\ (lastOp' = "undo" /\ ~isTransacting /\ done # <<>> /\ Applied)
          => /\ undone' = Append(undone, Top(undone'))
             /\ Notified(Top(undone'), "{replay:true}")
     /\ (lastOp' = "redo" /\ ~isTransacting /\ undone # <<>> /\ Applied)
          => /\ done' = Append(done, Top(done'))
             /\ Notified(Top(done'), "{replay:true}")]_vars

\* the notifications of the calls that return: as long as no proxy throws,
\* every commit, undo and redo notifies the proxy and then emits one
\* document:changed, with the change applied and on top of its stack
C10_NotifiedWhenProxyReturns ==
  [][/\ Commits => /\ done' = Append(done, Top(done'))
                   /\ Notified(Top(done'), IF lastOp' = "return" THEN txInfo ELSE "{}")
     /\ (lastOp' = "undo" /\ ~isTransacting /\ done # <<>> /\ lastErr' = "none")
          => /\ undone' = Append(undone, Top(undone'))
             /\ Notified(Top(undone'), "{replay:true}")
     /\ (lastOp' = "redo" /\ ~isTransacting /\ undone # <<>> /\ lastErr' = "none")
          => /\ done' = Append(done, Top(done'))
             /\ Notified(Top(done'), "{replay:true}")]_vars

\* a commit with event data has just notified the proxy and then the listeners
C10_Witness ==
  /\ lastOp = "return" /\ lastErr = "none" /\ ~isTransacting
  /\ Len(events) = 2 /\ events[1].name = "proxy:path"
  /\ events[2].name = "document:changed" /\ events[2].info = "{event-hack:true}"
  /\ events[2].change = Top(done) /\ Top(done).ops # <<>>
  /\ events[2].data = data

\* the afterState the keys of beforeState call for: the result's value for a
\* key it contains, whatever the value, beforeState's value otherwise
MergedAfterState(beforeState, result) ==
  [selection |-> IF beforeState.selection = "absent" THEN "absent"
                 ELSE IF result.defined /\ result.selection # "absent"
                      THEN result.selection
                      ELSE beforeState.selection]

\* C11: the afterState recorded by a transaction that commits on return has the
\* keys of beforeState, each with the result's value when the result contains
\* the key (null included) and with beforeState's value otherwise.
C11_AfterStateMergesResult ==
  [][\A r \in Results :
       (TransactionReturn(r) /\ isTransacting /\ lastErr' = "none")
         => Top(done').after = MergedAfterState(txBefore, r)]_vars

\* C12: undo with an empty done and redo with an empty undone return without
\* an error, leave both stores, the stage's buffer, done and undone as they
\* were and emit no document:changed.
C12_ExhaustedHistoryIsNoOp ==
  [][((lastOp' = "undo" /\ done = <<>>) \/ (lastOp' = "redo" /\ undone = <<>>))
       => /\ lastErr' = "none"
          /\ UNCHANGED docVars
          /\ ~EmitsChanged(events')]_vars

\* an undo made after the last change had already been undone
C12_Witness ==
  /\ lastOp = "undo" /\ lastErr = "none" /\ events = <<>>
  /\ done = <<>> /\ undone # <<>> /\ ~isTransacting /\ stageData = data

\* a step that applies a change and records it on a stack
AppliesChange ==
  \/ isTransacting /\ lastOp' \in {"save", "return"} /\ Len(done') = Len(done) + 1
  \/ ~isTransacting /\ lastOp' = "undo" /\ Len(undone') = Len(undone) + 1
  \/ ~isTransacting /\ lastOp' = "redo" /\ Len(done') = Len(done) + 1

\* C13: when an error is thrown while the proxy is notified of an applied
\* change, document:changed is still emitted, exactly once.
C13_EmissionSurvivesProxyError ==
  [][(proxyThrows /\ AppliesChange)
       => Cardinality({i \in 1..Len(events') : events'[i].name = "document:changed"}) = 1]_vars

\* C14: while FORCE_TRANSACTIONS is on, a create/delete/set/update called on
\* the document fails with the use-a-transaction error and changes no field,
\* inside a transaction as well as outside; the same mutations called on the
\* stage are buffered, and the commit applies them to the live store and
\* records them on done.
C14_ForcedTransactions ==
  [][FORCE_TRANSACTIONS =>
       /\ (DocCreate \/ DocDelete \/ DocSet \/ DocUpdate)
            => (lastErr' = "UseATransaction" /\ UNCHANGED docVars)
       /\ TxMutate
            => /\ lastErr' # "UseATransaction"
               /\ lastErr' = "none"
                    => /\ stageOps' = Append(stageOps, Top(stageOps'))
                       /\ stageData' = ApplyOp(stageData, Top(stageOps'))
       /\ Commits
            => /\ done' = Append(done, DocumentChange(stageOps, Top(done').before,
                                                      Top(done').after))
               /\ data' = ApplyAll(data, stageOps).store
               /\ stageData' = stageData /\ stageOps' = <<>>]_vars

\* a direct call refused after a transaction has committed stage mutations,
\* all with transactions forced
C14_Witness ==
  /\ FORCE_TRANSACTIONS /\ lastOp = "mutate" /\ lastErr = "UseATransaction"
  /\ ~isTransacting /\ Len(done) = 1 /\ Len(done[1].ops) = MaxOps
  /\ data # EmptyStore /\ stageData = data

\* C15: when loadSeed (and so fromSnapshot) returns, done and undone are
\* empty, no transaction is active and the stage equals the live store; an undo
\* made right after the load changes nothing.
C15_LoadNotInHistory ==
  [][/\ lastOp' = "load"
          => /\ lastErr' = "none"
             /\ done' = <<>> /\ undone' = <<>>
             /\ ~isTransacting' /\ stageData' = data'
     /\ (lastOp = "load" /\ lastOp' = "undo") => data' = data]_vars

\* linear scan of the node table: the annotations on the path whose closed
\* range meets [startOffset, endOffset] of the selection, of the type asked for
ScanAnnotations(store, sel, options) ==
  {id \in NodeIds :
     /\ IsAnnotation(store[id]) /\ AnnoPath(store[id]) = sel.path
     /\ store[id].startOffset <= sel.endOffset
     /\ sel.startOffset <= store[id].endOffset
     /\ options.type # "undefined" => store[id].type = options.type}

\* C16: for every property selection and every type option,
\* getAnnotationsForSelection returns what a linear scan of the live store
\* returns, and for a selection that is not a property selection it returns
\* nothing.
C16_AnnotationQueryMatchesScan ==
  \A sel \in Selections, options \in QueryOptions :
    GetAnnotationsForSelection(Cur, sel, options) =
      IF sel.isPropertySelection THEN ScanAnnotations(data, sel, options) ELSE {}

\* after an undo that brought the annotation back, a query meeting its range
\* finds it and a query past its range does not
C16_Witness ==
  /\ lastOp = "undo" /\ lastErr = "none" /\ clean /\ IsAnnotation(data["s1"])
  /\ GetAnnotationsForSelection(Cur, PropertySelection(<<"p1", "content">>, 1, 1),
                                [type |-> "strong"]) = {"s1"}
  /\ GetAnnotationsForSelection(Cur, PropertySelection(<<"p1", "content">>, 2, 2),
                                [type |-> "undefined"]) = {}
  /\ GetAnnotationsForSelection(Cur, ContainerSelection, [type |-> "undefined"]) = {}

\* C17: a query with a container and options returns exactly the container
\* annotations of that container whose selection overlaps sel, of the type
\* asked for when one is asked for; a query without a container returns the
\* empty list and no error.
C17_ContainerQueryExact ==
  /\ (qArgs.asked /\ qArgs.container # "undefined" /\ qArgs.options.defined)
       => /\ qResult.err = "none"
          /\ qResult.annotations =
               {id \in CaIds :
                  /\ caNodes[id] # NoCaNode
                  /\ caNodes[id].container = qArgs.container
                  /\ Overlaps(qArgs.sel, GetSelection(caNodes[id]))
                  /\ qArgs.options.type # "undefined"
                       => caNodes[id].type = qArgs.options.type}
  /\ (qArgs.asked /\ qArgs.container = "undefined") => qResult = NoResult


\* the text an annotation is attached to, or the empty slot when its path
\* names no node
TextAt(store, node) == store[AnnoPath(node)[1]]

\* C18: in every state reached by a committed transaction, an undo or a redo,
\* each annotation of the live store has a path that names an existing text
\* node and offsets with 0 <= startOffset <= endOffset <= length of that text.
C18_AnnotationsWithinText ==
  (lastOp \in {"save", "return", "undo", "redo"} /\ lastErr = "none")
    => \A id \in NodeIds :
         IsAnnotation(data[id])
           => /\ TextAt(data, data[id]).type = "paragraph"
              /\ 0 <= data[id].startOffset
              /\ data[id].startOffset <= data[id].endOffset
              /\ data[id].endOffset <= Len(TextAt(data, data[id]).content)


RECURSIVE Within(_, _, _)
\* node is the element el or one of its descendants
Within(dom, node, el) ==
  IF node = 0 THEN FALSE ELSE node = el \/ Within(dom, dom[node].parent, el)

\* x lies before the DOM point (node, offset) in document order
PrecedesPoint(dom, x, node, offset) ==
  /\ ~Within(dom, node, x)
  /\ \/ x < node
     \/ \E c \in 1..Len(dom) :
          /\ dom[c].parent = node
          /\ Cardinality({d \in 1..Len(dom) : dom[d].parent = node /\ d < c}) < offset
          /\ Within(dom, x, c)

\* the text nodes below el that are not inside an external span
ModelText(dom, el) ==
  {t \in 1..Len(dom) :
     /\ dom[t].kind = "text"
     /\ Within(dom, t, el)
     /\ ~\E a \in 1..Len(dom) : dom[a].external /\ Within(dom, t, a)}

RECURSIVE TotalLength(_, _)
TotalLength(dom, nodes) ==
  IF nodes = {} THEN 0
  ELSE LET t == CHOOSE t \in nodes : TRUE IN
       dom[t].length + TotalLength(dom, nodes \ {t})

\* the number of model characters of el that precede the point
TextBefore(dom, el, node, offset) ==
  TotalLength(dom, {t \in ModelText(dom, el) : PrecedesPoint(dom, t, node, offset)})
    + (IF node \in ModelText(dom, el) THEN offset ELSE 0)

\* C19: for a DOM point inside an element with data-path, getModelCoordinate
\* returns that element's path and, as offset, the number of text characters of
\* its non-external descendants that precede the point in document order: for
\* a text node with a character offset as for an element with a child index
\* (past the last child: the whole text); external spans contribute nothing.
C19_OffsetCountsPrecedingText ==
  \A el \in 1..Len(surface) :
    (/\ coorArgs.fn = "getModelCoordinate"
     /\ surface[el].path # NoPath
     /\ Within(surface, coorArgs.node, el))
      => /\ coor.path = <<surface[el].path[1], surface[el].path[3]>>
         /\ coor.offset = TextBefore(surface, el, coorArgs.node, coorArgs.offset)

\* the property element itself, with an index past its last child, in the
\* fixture with external spans: the six characters outside them
C19_Witness ==
  /\ surface = wrappedTextNodesWithExternals
  /\ coorArgs = [fn |-> "getModelCoordinate", node |-> 2, offset |-> 6,
                 direction |-> "undefined"]
  /\ coor = Coordinate(<<"test1", "content">>, 6)

\* the same for a text node behind an external span
C19_TextNodeCase ==
  /\ surface = wrappedTextNodesWithExternals
  /\ coorArgs = [fn |-> "getModelCoordinate", node |-> 8, offset |-> 1,
                 direction |-> "undefined"]
  /\ coor = Coordinate(<<"test1", "content">>, 3)


\* the property elements before and behind the last lookup's DOM point
PropertiesBefore ==
  {e \in 1..Len(surface) :
     surface[e].path # NoPath /\ PrecedesPoint(surface, e, coorArgs.node, coorArgs.offset)}

PropertiesBehind ==
  {e \in 1..Len(surface) :
     /\ surface[e].path # NoPath
     /\ ~Within(surface, coorArgs.node, e)
     /\ ~PrecedesPoint(surface, e, coorArgs.node, coorArgs.offset)}

\* the last lookup was made for a point with no data-path ancestor
Searched ==
  /\ coorArgs.fn \in {"getModelCoordinate", "searchForCoordinate"}
  /\ \A e \in 1..Len(surface) :
       surface[e].path # NoPath => ~Within(surface, coorArgs.node, e)

FirstOf(nodes) == CHOOSE e \in nodes : \A other \in nodes : e <= other

LastOf(nodes) == CHOOSE e \in nodes : \A other \in nodes : other <= e

StartOf(e) == Coordinate(<<surface[e].path[1], surface[e].path[3]>>, 0)

EndOf(e) ==
  Coordinate(<<surface[e].path[1], surface[e].path[3]>>,
             TotalLength(surface, ModelText(surface, e)))

\* C20 as stated: for a DOM point with no data-path ancestor, the search
\* returns offset 0 of the first property behind the point, and with
\* {direction: 'left'} the end of the property before the point.
C20_SearchFindsNearestProperty ==
  Searched
    => IF coorArgs.direction = "left"
       THEN PropertiesBefore # {} /\ coor = EndOf(LastOf(PropertiesBefore))
       ELSE PropertiesBehind # {} /\ coor = StartOf(FirstOf(PropertiesBehind))

\* C20: for a DOM point with no data-path ancestor, the search returns, in the
\* default direction, offset 0 of the first property behind the point if there
\* is one, and else the end of the last property; with {direction: 'left'} and
\* a property before the point it returns the end of that property.
C20_SearchFindsNearestPropertyOrLast ==
  Searched
    => /\ (coorArgs.direction = "left" /\ PropertiesBefore # {})
            => coor = EndOf(LastOf(PropertiesBefore))
       /\ (coorArgs.direction # "left" /\ PropertiesBehind # {})
            => coor = StartOf(FirstOf(PropertiesBehind))
       /\ (coorArgs.direction # "left" /\ PropertiesBehind = {})
            => coor = EndOf(LastOf(PropertiesBefore))

\* from the text 'Between' to the left: the end of the second property
C20_Witness ==
  /\ surface = mixedFixture
  /\ coorArgs = [fn |-> "searchForCoordinate", node |-> 10, offset |-> 1,
                 direction |-> "left"]
  /\ coor = Coordinate(<<"test2", "content">>, 20)


\* every property element of the surface
AllProperties == {e \in 1..Len(surface) : surface[e].path # NoPath}

\* C21: a forward search from a DOM point behind the last property of the
\* surface still yields a coordinate: the last property, with offset equal
\* to its text length.
C21_SearchBehindLastProperty ==
  (Searched /\ coorArgs.direction # "left" /\ PropertiesBehind = {})
    => /\ coor # NoCoordinate
       /\ coor.path = <<surface[LastOf(AllProperties)].path[1],
                        surface[LastOf(AllProperties)].path[3]>>
       /\ coor.offset = TotalLength(surface, ModelText(surface, LastOf(AllProperties)))

\* from the text 'After' of the mixed fixture: the end of the fourth property
C21_Witness ==
  /\ surface = mixedFixture
  /\ coorArgs = [fn |-> "searchForCoordinate", node |-> 18, offset |-> 1,
                 direction |-> "undefined"]
  /\ coor = Coordinate(<<"test4", "content">>, 19)


\* C22: for a property whose text is empty, getModelCoordinate returns the
\* property's path with offset 0, for the data-path element itself as for an
\* element that wraps it.
C22_EmptyPropertyAtOffsetZero ==
  \A el \in AllProperties :
    (/\ coorArgs.fn = "getModelCoordinate"
     /\ ModelText(surface, el) = {}
     /\ Within(surface, el, coorArgs.node))
      => coor = Coordinate(<<surface[el].path[1], surface[el].path[3]>>, 0)

\* the empty paragraph, looked up through its wrapping element
C22_Witness ==
  /\ surface = emptyParagraphFixture
  /\ coorArgs = [fn |-> "getModelCoordinate", node |-> 1, offset |-> 0,
                 direction |-> "undefined"]
  /\ coor = Coordinate(<<"test1", "content">>, 0)


\* C23: a call of transaction() pushes at most one change onto done: at every
\* step of the call done holds at most one change more than when the call
\* began. A push ends the transaction and records the buffered ops; once the
\* transformation has saved or cancelled, the end of the call (the skipped
\* automatic save, finish) changes neither store nor history and raises no
\* error of its own; a cancel commits nothing, leaves live store, done and
\* undone as they were and reverts the stage by the inverses of the buffered
\* ops, last first.
C23_OneChangePerTransaction ==
  [][/\ inCallback => Len(done') <= txDone + 1
     /\ (inCallback /\ Len(done') > Len(done) /\ lastOp' # "redo")
          => isTransacting /\ ~isTransacting' /\ Top(done').ops = stageOps
     /\ (inCallback /\ ~isTransacting /\ lastOp' \in {"return", "throw"})
          => /\ data' = data /\ done' = done /\ undone' = undone
             /\ stageData' = stageData
             /\ lastOp' = "return" => lastErr' \in {"none", "TypeError"}
     /\ (inCallback /\ isTransacting /\ lastOp' = "cancel")
          => /\ ~isTransacting'
             /\ data' = data /\ done' = done /\ undone' = undone
             /\ stageData' = ApplyAll(stageData,
                                      [i \in 1..Len(stageOps) |->
                                         InvertOp(stageOps[Len(stageOps) + 1 - i])]).store
             /\ stageOps' = <<>>]_vars

\* the same for the calls whose transformation keeps the transaction
\* discipline, making no call on the document once its transaction has ended:
\* such a call pushes at most one change, and after the transformation has
\* saved or cancelled the document stays idle to the end of the call
C23_OneChangeWithinDiscipline ==
  [][direct' = 0
       => /\ inCallback => Len(done') <= txDone + 1
          /\ (inCallback /\ inCallback' /\ ~isTransacting) => ~isTransacting'
          /\ (inCallback /\ Len(done') > Len(done))
               => isTransacting /\ ~isTransacting' /\ Top(done').ops = stageOps]_vars

\* the transformation has saved its two ops itself and has not returned yet
C23_Witness ==
  /\ inCallback /\ ~isTransacting
  /\ lastOp = "save" /\ lastErr = "none"
  /\ Len(done) = 1 /\ Len(done[1].ops) = 2
  /\ data = ApplyAll(EmptyStore, done[1].ops).store

\* the transformation has cancelled after buffering ops: nothing is committed
C23_CancelCase ==
  /\ inCallback /\ ~isTransacting
  /\ lastOp = "cancel" /\ lastErr = "none"
  /\ Len(done) = 1 /\ stageData = data /\ stageOps = <<>>


\* C24: when a call of transaction() that was not rejected as nested completes,
\* by returning or by throwing (an error of a transaction:started listener, of
\* the transformation, or of a change listener during the commit), the
\* document is idle: isTransacting is false.
C24_TransactionLeavesIdle ==
  [][/\ lastOp' \in {"return", "throw"} => ~isTransacting'
     /\ (/\ ~isTransacting
         /\ \E a \in TransactionArgs : Transaction(a[1], a[2], a[3])
         /\ lastErr' # "none")
          => ~isTransacting']_vars


\* C25: undo() or redo() called while a transaction is active, with a change
\* to replay, is rejected with an error and leaves done, undone, the live
\* store and the stage as they were.
C25_ReplayInTransactionRejected ==
  [][(/\ isTransacting
      /\ \/ lastOp' = "undo" /\ done # <<>>
         \/ lastOp' = "redo" /\ undone # <<>>)
       => /\ lastErr' # "none"
          /\ UNCHANGED <<done, undone, data, stageData, stageOps>>]_vars


\* C26: a transformation that returns no value is committed normally for
\* every beforeState, empty or not: its ops are applied to the live store, one
\* change is pushed onto done, and the recorded afterState equals beforeState.
C26_NoResultCommits ==
  [][(inCallback /\ isTransacting /\ clean /\ TransactionReturn(Undefined))
       => /\ lastErr' = Outcome
          /\ data' = ApplyAll(data, stageOps).store
          /\ done' = Append(done, DocumentChange(stageOps, txBefore, txBefore))]_vars

====
